---- MODULE Spec2Model ----
(***************************************************************************)
(* MottaHunter: one SMTP validation run (motta_validate_email_permutations *)
(* and its line-for-line twin motta_validate_scraped_emails), the probe    *)
(* it calls for every address (motta_validate_email_smtp), and the         *)
(* address-of-record / catch-all gate (motta_validate_info_address).       *)
(* The DNS answer, the server's replies, the drawn pacing delay and the    *)
(* operator's Ctrl-C are the environment: nondeterministic choices.        *)
(***************************************************************************)
EXTENDS Integers, Sequences, FiniteSets, TLC

\* ------------------------------------------------------------ bounds
MaxCands == 2          \* longest candidate list explored
MaxInterrupts == 1     \* Ctrl-C presses explored per run

\* ------------------------------------------------------- environment
None == "None"
Addresses == {"a@d", "b@d"}           \* candidate addresses
InfoAddress == "info@d"               \* f"info@{domain}"
CheckOverride == "chk@d"              \* a --check-email value
CatchAllAddress == "mottasec-rnd@d"   \* f"mottasec-{random_string}@{domain}"

\* what resolve(domain, 'MX') can do: raise, or return an answer
DnsFailures == {"NXDOMAIN", "Timeout"}
MxAnswers == {<<>>, <<"mx1">>, <<"mx2", "mx1">>}
DnsOutcomes == {[exc |-> e, records |-> <<>>] : e \in DnsFailures}
               \cup {[exc |-> None, records |-> a] : a \in MxAnswers}

\* replies a server can give
GreetCodes == {220, 554}
ReplyCodes == {250, 550}              \* to HELO and to MAIL FROM
RcptCodes == {250, 251, 450, 550}     \* to RCPT TO
QuitCodes == {221, 250}               \* to QUIT
\* In the reply sets below 0 stands for "no reply": EOF, reset or timeout on
\* the socket, which smtplib raises as OSError / SMTPServerDisconnected.
GreetReplies == GreetCodes \cup {0}
HeloReplies == ReplyCodes \cup {0}
MailReplies == ReplyCodes \cup {0}
RcptReplies == RcptCodes \cup {0}
QuitReplies == QuitCodes \cup {0}

\* --delay MIN MAX values (type=int, nargs=2)
Delays == {<<0, 1>>, <<-1, 0>>}

SeqsUpTo(S, n) == UNION {[1..k -> S] : k \in 0..n}

VARIABLES
    permutations,   \* the candidate list handed to the run
    no_check,       \* --no-check
    check_email,    \* --check-email or None
    delay,          \* [min, max]
    pc,             \* position of the run
    mx_server,      \* mx_records[0].exchange
    info_valid,     \* first component returned by motta_validate_info_address
    is_catch_all,   \* second component
    idx,            \* 1-based position of the for loop in the list
    valid_count,
    outcome,        \* how the run ended
    smtp,           \* the probe in progress and its session
    ret,            \* value returned by the last probe call
    delay_duration, \* the delay drawn for the pending sleep
    interrupts,     \* Ctrl-C presses so far
    log,            \* everything observable, in order
    args,           \* args.part and args.total_parts of the command line
    all_permutations,   \* the generated list, before any split
    split,          \* calls of _motta_split on their own
    gen,            \* calls of motta_generate_permutations on their own
    run_domain,     \* the domain argument of the run, as the caller wrote it
    hunt,           \* a call of MottaHunter.hunt_for_emails
    twin,           \* a call of motta_validate_scraped_emails on the same input
    other           \* a second run, while this one has the processor

inputs == <<permutations, no_check, check_email, delay, args, all_permutations, split, gen,
            run_domain, hunt, twin, other>>
run == <<pc, mx_server, info_valid, is_catch_all, idx, valid_count, outcome, smtp, ret,
         delay_duration, interrupts, log>>
vars == <<permutations, no_check, check_email, delay, pc, mx_server, info_valid,
          is_catch_all, idx, valid_count, outcome, smtp, ret, delay_duration,
          interrupts, log, args, all_permutations, split, gen, run_domain, hunt, twin, other>>

\* ------------------------------------------------------------ events
Ev(e) == [ev |-> e, kind |-> "", addr |-> "", host |-> "", ok |-> FALSE, n |-> 0, total |-> 0,
          records |-> <<>>]
EvProbe(k, a, h) == [Ev("probe") EXCEPT !.kind = k, !.addr = a, !.host = h]
EvReturn(k, a, v) == [Ev("return") EXCEPT !.kind = k, !.addr = a, !.ok = v]
EvInfo(a, v) == [Ev("print_info") EXCEPT !.addr = a, !.ok = v]
EvResult(a, v) == [Ev("print_result") EXCEPT !.addr = a, !.ok = v]
EvSummary(c, t) == [Ev("print_summary") EXCEPT !.n = c, !.total = t]

NoSession == [stage |-> "idle", kind |-> "", addr |-> "", open |-> FALSE,
              helo |-> 0, mail |-> 0, rcpt |-> 0, quit |-> 0, exc |-> None,
              rcpts |-> 0, to |-> "", connects |-> 0]

\* -------------------------------------------------------------- Init
\* no --part on the command line (args.part is None), --total-parts at its default
NoPart == [part_given |-> FALSE, part |-> 0, total_parts |-> 4]
NoSplit == [pc |-> "off"]
NoGen == [pc |-> "off"]
NoHunt == [pc |-> "off"]
NoTwin == [pc |-> "off"]
NoOther == [pc |-> "off"]

\* the variables of a run, with the run at position p and nothing done yet
RunAt(p) ==
    /\ pc = p
    /\ mx_server = None
    /\ info_valid = FALSE
    /\ is_catch_all = FALSE
    /\ idx = 1
    /\ valid_count = 0
    /\ outcome = "running"
    /\ smtp = NoSession
    /\ ret = FALSE
    /\ delay_duration = 0
    /\ interrupts = 0
    /\ log = <<>>

\* a run of motta_validate_email_permutations on a given list
Init ==
    /\ permutations \in SeqsUpTo(Addresses, MaxCands)
    /\ no_check \in BOOLEAN
    /\ check_email \in {None, CheckOverride}
    /\ delay \in Delays
    /\ args = NoPart
    /\ all_permutations = permutations
    /\ split = NoSplit
    /\ gen = NoGen
    /\ run_domain = "d" /\ hunt = NoHunt /\ twin = NoTwin /\ other = NoOther
    /\ RunAt("resolve")

\* ------------------------------------------------------ pure helpers
\* line 112: return response[0] == 250
RcptVerdict_Accepts251(code) == code \in {250, 251}
RcptVerdict(code) == code = 250

\* line 198: if not info_valid or is_catch_all: return
GateAborts_IgnoresCatchAll(iv, ca) == ~iv
GateAborts_IgnoresInfo(iv, ca) == ca
GateAborts(iv, ca) == (~iv) \/ ca

\* line 203: for email in permutations
NextCandidate_Reversed(perms, i) == perms[Len(perms) + 1 - i]
NextCandidate(perms, i) == perms[i]

\* line 145: check_email if check_email else f"info@{domain}"
InfoAddressAt(dom) == "info@" \o dom
TestEmail_IgnoresOverride(ce) == InfoAddressAt(run_domain)
TestEmail(ce) == IF ce # None THEN ce ELSE InfoAddressAt(run_domain)

\* lines 156-157: f"mottasec-{random_string}@{domain}"
CatchAllAddressAt(dom) == "mottasec-rnd@" \o dom

\* the three "except Exception" clauses: KeyboardInterrupt is a BaseException
ProbeHandlerCatches_SmtpOnly(e) ==
    e \in {"SMTPConnectError", "SMTPServerDisconnected", "SMTPResponseException"}
ProbeHandlerCatches_ConnectOnly(e) == e \in {"OSError", "SMTPConnectError"}
ProbeHandlerCatches(e) == e # "KeyboardInterrupt"
InfoHandlerCatches(e) == e # "KeyboardInterrupt"
RunHandlerCatches_NxdomainOnly(e) == e = "NXDOMAIN"
RunHandlerCatches(e) == e # "KeyboardInterrupt"

\* random.uniform(*delay), on the integer grid
DelayDraws(d) == d[1]..d[2]

\* ------------------------------------------- exception propagation
\* An exception e leaves the frame it arose in; lg is the log so far.  Inside
\* motta_validate_info_address the handler of line 163 is the first to see
\* it, then the handler of line 223, then main's "except KeyboardInterrupt".
Raise(e, lg) ==
    IF pc \in {"info_check", "info_probe", "catchall_probe"} /\ InfoHandlerCatches(e)
    THEN /\ log' = Append(lg, Ev("print_info_error"))
         /\ info_valid' = FALSE
         /\ is_catch_all' = FALSE
         /\ pc' = "gate"
         /\ outcome' = outcome
    ELSE IF RunHandlerCatches(e)
    THEN /\ log' = Append(lg, Ev("print_error"))
         /\ pc' = "done"
         /\ outcome' = "error"
         /\ UNCHANGED <<info_valid, is_catch_all>>
    ELSE /\ log' = lg
         /\ pc' = "done"
         /\ outcome' = IF e = "KeyboardInterrupt" THEN "cancelled" ELSE "raised"
         /\ UNCHANGED <<info_valid, is_catch_all>>

\* ------------------------------------------------------------- the run
\* line 190: mx_records[0].exchange.to_text()
FirstExchange_Last(records) == records[Len(records)]
FirstExchange(records) == records[1]

\* lines 184-192 and 223-224; the event of the query holds the name queried
\* (line 185: resolve(domain, 'MX')) and what it returned or raised
Resolve ==
    /\ pc = "resolve"
    /\ \E a \in DnsOutcomes :
         LET lg == Append(log, [Ev("mx_query") EXCEPT !.kind = a.exc, !.addr = run_domain,
                                                      !.records = a.records]) IN
         IF a.exc # None
         THEN Raise(a.exc, lg) /\ UNCHANGED mx_server
         ELSE IF a.records = <<>>
         THEN /\ log' = Append(lg, Ev("print_no_mx"))
              /\ pc' = "done"
              /\ outcome' = "no_mx"
              /\ UNCHANGED <<mx_server, info_valid, is_catch_all>>
         ELSE /\ mx_server' = FirstExchange(a.records)
              /\ log' = lg
              /\ pc' = "info_check"
              /\ UNCHANGED <<outcome, info_valid, is_catch_all>>
    /\ UNCHANGED <<inputs, idx, valid_count, smtp, ret, delay_duration, interrupts>>

\* a call of motta_validate_email_smtp(a, sender_email, mx_server, debug)
Call(k, a) == [NoSession EXCEPT !.stage = "connect", !.kind = k, !.addr = a]

\* lines 137-146
InfoCheck ==
    /\ pc = "info_check"
    /\ IF no_check
       THEN /\ info_valid' = TRUE
            /\ is_catch_all' = FALSE
            /\ pc' = "gate"
            /\ UNCHANGED <<smtp, log>>
       ELSE /\ smtp' = Call("info", TestEmail(check_email))
            /\ log' = Append(log, EvProbe("info", TestEmail(check_email), mx_server))
            /\ pc' = "info_probe"
            /\ UNCHANGED <<info_valid, is_catch_all>>
    /\ UNCHANGED <<inputs, mx_server, idx, valid_count, outcome, ret, delay_duration, interrupts>>

\* lines 146-158: the verdict on the address of record, then the catch-all call
InfoReturn ==
    /\ pc = "info_probe"
    /\ smtp.stage = "returned"
    /\ info_valid' = ret
    /\ smtp' = Call("catchall", CatchAllAddressAt(run_domain))
    /\ log' = log \o <<EvInfo(smtp.addr, ret),
                       EvProbe("catchall", CatchAllAddressAt(run_domain), mx_server)>>
    /\ pc' = "catchall_probe"
    /\ UNCHANGED <<inputs, mx_server, is_catch_all, idx, valid_count, outcome, ret,
                   delay_duration, interrupts>>

\* lines 158-161
CatchAllReturn ==
    /\ pc = "catchall_probe"
    /\ smtp.stage = "returned"
    /\ is_catch_all' = ret
    /\ log' = IF ret THEN Append(log, Ev("print_catch_all")) ELSE log
    /\ smtp' = NoSession
    /\ pc' = "gate"
    /\ UNCHANGED <<inputs, mx_server, info_valid, idx, valid_count, outcome, ret,
                   delay_duration, interrupts>>

\* lines 195-202
Gate ==
    /\ pc = "gate"
    /\ IF GateAborts(info_valid, is_catch_all)
       THEN pc' = "done" /\ outcome' = "gated"
       ELSE pc' = "loop" /\ outcome' = outcome
    /\ UNCHANGED <<inputs, mx_server, info_valid, is_catch_all, idx, valid_count, smtp, ret,
                   delay_duration, interrupts, log>>

\* lines 203-204 (next iteration) and 221 (the list is exhausted)
LoopNext ==
    /\ pc = "loop"
    /\ IF idx > Len(permutations)
       THEN /\ log' = Append(log, EvSummary(valid_count, Len(permutations)))
            /\ pc' = "done"
            /\ outcome' = "completed"
            /\ UNCHANGED smtp
       ELSE /\ smtp' = Call("cand", NextCandidate(permutations, idx))
            /\ log' = Append(log, EvProbe("cand", NextCandidate(permutations, idx), mx_server))
            /\ pc' = "cand_probe"
            /\ UNCHANGED outcome
    /\ UNCHANGED <<inputs, mx_server, info_valid, is_catch_all, idx, valid_count, ret,
                   delay_duration, interrupts>>

\* lines 204-213
CandReturn ==
    /\ pc = "cand_probe"
    /\ smtp.stage = "returned"
    /\ valid_count' = IF ret THEN valid_count + 1 ELSE valid_count
    /\ log' = Append(log, EvResult(smtp.addr, ret))
    /\ smtp' = NoSession
    /\ pc' = "pace"
    /\ UNCHANGED <<inputs, mx_server, info_valid, is_catch_all, idx, outcome, ret,
                   delay_duration, interrupts>>

\* lines 216-217
PaceDraw ==
    /\ pc = "pace"
    /\ \E d \in DelayDraws(delay) :
         /\ delay_duration' = d
         /\ log' = Append(log, [Ev("print_waiting") EXCEPT !.n = d])
    /\ pc' = "sleep"
    /\ UNCHANGED <<inputs, mx_server, info_valid, is_catch_all, idx, valid_count, outcome,
                   smtp, ret, interrupts>>

\* line 203: the for loop goes on to the next element, whatever the verdict
\* r on element i was
NextIdx_RetryRejected(i, r) == IF r THEN i + 1 ELSE i
NextIdx(i, r) == i + 1

\* line 218: time.sleep raises ValueError on a negative length
Sleep ==
    /\ pc = "sleep"
    /\ IF delay_duration < 0
       THEN Raise("ValueError", log) /\ UNCHANGED idx
       ELSE /\ log' = Append(log, Ev("sleep"))
            /\ idx' = NextIdx(idx, ret)
            /\ pc' = "loop"
            /\ UNCHANGED <<outcome, info_valid, is_catch_all>>
    /\ UNCHANGED <<inputs, mx_server, valid_count, smtp, ret, delay_duration, interrupts>>

\* ----------------------------------------------------------- the probe
\* lines 97 and 113-116: the call ends with exception e pending (None: no
\* exception, the with block returned v); s is the session as it was left.
ProbeFinish(e, v, s) ==
    IF e = None \/ ProbeHandlerCatches(e)
    THEN /\ ret' = (IF e = None THEN v ELSE FALSE)
         /\ smtp' = [s EXCEPT !.stage = "returned"]
         /\ log' = Append(log, EvReturn(s.kind, s.addr, IF e = None THEN v ELSE FALSE))
         /\ UNCHANGED <<pc, outcome, info_valid, is_catch_all>>
    ELSE /\ smtp' = [s EXCEPT !.stage = "raised"]
         /\ Raise(e, log)
         /\ UNCHANGED ret

\* line 101, smtplib.SMTP(mx_server, 25, timeout=10): connect and read the
\* greeting; no socket, or a greeting other than 220, raises with the socket closed
Connect(s) == [s EXCEPT !.connects = @ + 1]

ProbeConnect ==
    /\ smtp.stage = "connect"
    /\ pc # "done"
    /\ \E g \in GreetReplies :
         IF g = 220
         THEN /\ smtp' = [Connect(smtp) EXCEPT !.open = TRUE, !.stage = "helo"]
              /\ UNCHANGED <<pc, outcome, info_valid, is_catch_all, ret, log>>
         ELSE LET e == IF g = 0 THEN "OSError" ELSE "SMTPConnectError" IN
              ProbeFinish(e, FALSE, [Connect(smtp) EXCEPT !.exc = e])
    /\ UNCHANGED <<inputs, mx_server, idx, valid_count, delay_duration, interrupts>>

\* a command of the dialog: the reply r is stored in field f, or the
\* connection is lost (getreply closes the socket and raises)
Dialog(r, f, next) ==
    smtp' = IF r = 0
            THEN [smtp EXCEPT !.open = FALSE, !.exc = "SMTPServerDisconnected", !.stage = "exit"]
            ELSE [smtp EXCEPT ![f] = r, !.stage = next]

\* line 105, smtp.helo("mottasec.com"): the reply is not inspected
ProbeHelo ==
    /\ smtp.stage = "helo"
    /\ \E r \in HeloReplies : Dialog(r, "helo", "mail")
    /\ UNCHANGED <<inputs, pc, mx_server, info_valid, is_catch_all, idx, valid_count, outcome,
                   ret, delay_duration, interrupts, log>>

\* line 106, smtp.mail(sender_email): the reply is not inspected
ProbeMail ==
    /\ smtp.stage = "mail"
    /\ \E r \in MailReplies : Dialog(r, "mail", "rcpt")
    /\ UNCHANGED <<inputs, pc, mx_server, info_valid, is_catch_all, idx, valid_count, outcome,
                   ret, delay_duration, interrupts, log>>

\* line 107, smtp.rcpt(email): one RCPT TO command naming the address of the call
SendRcpt_Twice(s) == [s EXCEPT !.rcpts = @ + 2, !.to = s.addr]
SendRcpt(s) == [s EXCEPT !.rcpts = @ + 1, !.to = s.addr]

\* lines 107-112, response = smtp.rcpt(email); return response[0] == 250
ProbeRcpt ==
    /\ smtp.stage = "rcpt"
    /\ \E r \in RcptReplies :
         smtp' = IF r = 0
                 THEN [SendRcpt(smtp) EXCEPT !.open = FALSE, !.exc = "SMTPServerDisconnected",
                                             !.stage = "exit"]
                 ELSE [SendRcpt(smtp) EXCEPT !.rcpt = r, !.stage = "exit"]
    /\ UNCHANGED <<inputs, pc, mx_server, info_valid, is_catch_all, idx, valid_count, outcome,
                   ret, delay_duration, interrupts, log>>

\* what SMTP.__exit__ leaves pending: a QUIT answered by anything but 221
\* raises SMTPResponseException in place of whatever was pending; a lost
\* connection is passed over
AfterQuit(q, pending) == IF q \notin {0, 221} THEN "SMTPResponseException" ELSE pending

\* the session after SMTP.__exit__ got reply q to its QUIT: "finally:
\* self.close()" closes the socket whatever the reply was
ExitSession_NoFinally(s, q) ==
    [s EXCEPT !.open = (q \notin {0, 221}), !.quit = q, !.exc = AfterQuit(q, s.exc)]
ExitSession(s, q) == [s EXCEPT !.open = FALSE, !.quit = q, !.exc = AfterQuit(q, s.exc)]

\* leaving the with block of line 101: SMTP.__exit__ sends QUIT when the
\* socket is still up and always closes; then the call ends (lines 112-116)
ProbeExit ==
    /\ smtp.stage = "exit"
    /\ IF smtp.open
       THEN \E q \in QuitReplies :
              ProbeFinish(AfterQuit(q, smtp.exc), RcptVerdict(smtp.rcpt), ExitSession(smtp, q))
       ELSE ProbeFinish(smtp.exc, RcptVerdict(smtp.rcpt), smtp)
    /\ UNCHANGED <<inputs, mx_server, idx, valid_count, delay_duration, interrupts>>

\* ------------------------------------------------------------ Ctrl-C
\* KeyboardInterrupt is raised wherever the run is.  Inside the with block
\* it is pending while SMTP.__exit__ runs; during the connect or during
\* __exit__ itself the socket is closed and it propagates; elsewhere it
\* propagates at once (harvester.py main, lines 333-335, ends the program).
Interrupt ==
    /\ pc # "done"
    /\ interrupts < MaxInterrupts
    /\ interrupts' = interrupts + 1
    /\ IF smtp.stage \in {"helo", "mail", "rcpt"}
       THEN /\ smtp' = [smtp EXCEPT !.exc = "KeyboardInterrupt", !.stage = "exit"]
            /\ log' = Append(log, Ev("interrupt"))
            /\ UNCHANGED <<pc, outcome, info_valid, is_catch_all>>
       ELSE /\ smtp' = IF smtp.stage \in {"connect", "exit"}
                       THEN [smtp EXCEPT !.open = FALSE, !.exc = "KeyboardInterrupt", !.stage = "raised"]
                       ELSE smtp
            /\ Raise("KeyboardInterrupt", Append(log, Ev("interrupt")))
    /\ UNCHANGED <<inputs, mx_server, idx, valid_count, ret, delay_duration>>

Next ==
    \/ Resolve
    \/ InfoCheck
    \/ InfoReturn
    \/ CatchAllReturn
    \/ Gate
    \/ LoopNext
    \/ CandReturn
    \/ PaceDraw
    \/ Sleep
    \/ ProbeConnect
    \/ ProbeHelo
    \/ ProbeMail
    \/ ProbeRcpt
    \/ ProbeExit
    \/ Interrupt

Spec == Init /\ [][Next]_vars

\* ============================================================ claims
\* what the log shows
Probes(k) == SelectSeq(log, LAMBDA e : e.ev = "probe" /\ e.kind = k)
Returns(k) == SelectSeq(log, LAMBDA e : e.ev = "return" /\ e.kind = k)
AllProbes == SelectSeq(log, LAMBDA e : e.ev = "probe")
Results == SelectSeq(log, LAMBDA e : e.ev = "print_result")
Printed(name) == \E i \in DOMAIN log : log[i].ev = name
CatchAllAccepted == \E i \in DOMAIN log : log[i].ev = "return" /\ log[i].kind = "catchall" /\ log[i].ok
CatchAllRejected == \E i \in DOMAIN log : log[i].ev = "return" /\ log[i].kind = "catchall" /\ ~log[i].ok
InfoAccepted == \E i \in DOMAIN log : log[i].ev = "return" /\ log[i].kind = "info" /\ log[i].ok
Ended == pc = "done" /\ outcome # "cancelled"

\* C1: once the catch-all probe has returned accepted, no candidate is ever
\* probed and no per-candidate result is emitted, whatever the list is, and
\* a run that ends (uncancelled) has printed the catch-all alert and ended
\* at the gate.
C1_CatchAllGate ==
    CatchAllAccepted =>
        /\ Len(Probes("cand")) = 0
        /\ Len(Results) = 0
        /\ (Ended => Printed("print_catch_all") /\ outcome = "gated")
C1_Witness ==
    Ended /\ CatchAllAccepted /\ Len(permutations) > 0 /\ Printed("print_catch_all")

\* C2: whenever a candidate has been probed, the catch-all probe of the run
\* has returned before (also under no_check).
C2_CatchAllBeforeCandidates ==
    Len(Probes("cand")) > 0 => Len(Returns("catchall")) > 0

\* C3: a probe call returns true if and only if it reached RCPT TO and the
\* reply to RCPT TO was 250.
C3_VerdictIffRcpt250 ==
    smtp.stage = "returned" => (ret <=> smtp.rcpt = 250)

\* C4 (as claimed): a reply other than 250 to HELO, MAIL FROM or RCPT TO
\* makes the call return false.
C4_AnyStepNon250Rejects ==
    smtp.stage = "returned" /\ (smtp.helo # 250 \/ smtp.mail # 250 \/ smtp.rcpt # 250) => ~ret
\* C4 (amended): a reply other than 250 to RCPT TO (or no RCPT TO reply at
\* all) makes the call return false; the HELO and MAIL FROM replies do not
\* decide the verdict.
C4_RcptNon250Rejects ==
    smtp.stage = "returned" /\ smtp.rcpt # 250 => ~ret
C4_Witness ==
    smtp.stage = "returned" /\ smtp.helo = 550 /\ smtp.rcpt = 251 /\ ~ret

C6_AbortReported ==
    Ended /\ Len(Probes("cand")) = 0 /\ ~Printed("print_summary")
        => Printed("print_no_mx") \/ Printed("print_error") \/ Printed("print_catch_all")

\* C7: at every point of the run the candidate events are probe 1, return 1,
\* result 1, probe 2, return 2, result 2, ... over the input list in its
\* order, each result carrying the address and the verdict of its own probe.
CandEvents ==
    SelectSeq(log, LAMBDA e : (e.kind = "cand" /\ e.ev \in {"probe", "return"}) \/ e.ev = "print_result")
C7_ResultsInOrder ==
    /\ Len(CandEvents) <= 3 * Len(permutations)
    /\ \A k \in DOMAIN CandEvents :
         LET e == CandEvents[k]
             i == (k + 2) \div 3
         IN  /\ e.addr = permutations[i]
             /\ e.ev = (CASE k % 3 = 1 -> "probe" [] k % 3 = 2 -> "return" [] OTHER -> "print_result")
             /\ (k % 3 = 0 => e.ok = CandEvents[k - 1].ok)
C7_Witness ==
    /\ Len(Results) = 2
    /\ Results[1].addr # Results[2].addr
    /\ Results[1].ok /\ ~Results[2].ok

\* C8: when the MX query raised or returned no record, the run has ended
\* normally, no probe was ever started, and the no-MX or the resolution
\* error report was printed.
MxFailed == Printed("mx_query") /\ mx_server = None
C8_NoMxShortCircuit ==
    MxFailed =>
        /\ pc = "done"
        /\ outcome \in {"no_mx", "error"}
        /\ Len(AllProbes) = 0
        /\ (outcome = "no_mx" <=> Printed("print_no_mx"))
        /\ (outcome = "error" <=> Printed("print_error"))
C8_Witness ==
    MxFailed /\ outcome = "error" /\ Len(permutations) > 0 /\ Len(log) = 2

\* C9: a candidate probe that was not accepted (rejected, or failed in
\* transport) gives that candidate the verdict false and never ends the
\* run: the next candidate is probed, or the run is still on its way to it,
\* or it was cancelled, or the pacing step after the emitted result raised.
PacingRaised ==
    /\ outcome = "error"
    /\ delay_duration < 0
    /\ Len(log) >= 2
    /\ log[Len(log) - 1].ev = "print_waiting"
C10_ProbeNeverThrows ==
    /\ outcome # "raised"
    /\ (smtp.exc \notin {None, "KeyboardInterrupt"} /\ smtp.stage # "exit"
          => smtp.stage = "returned" /\ ~ret)
C10_Witness ==
    /\ smtp.stage = "returned"
    /\ smtp.exc = "SMTPServerDisconnected"
    /\ smtp.mail = 250 /\ smtp.rcpt = 0
    /\ ~ret

\* C11: a socket is open only while its probe call is inside the with
\* block: once the call has returned (or was left by an exception), and
\* before the next call connects, the session is closed.
C11_SessionClosedAtReturn ==
    smtp.open => smtp.stage \in {"helo", "mail", "rcpt", "exit"}
C11_Witness ==
    /\ smtp.stage = "returned"
    /\ smtp.rcpt = 250 /\ smtp.quit = 250 /\ smtp.exc = "SMTPResponseException"
    /\ ~smtp.open

\* C12: an interrupt takes effect only between probes: no probe is left by
\* a pending KeyboardInterrupt while its dialog is under way, no probe
\* begins after an interrupt, and a run that has ended holds no open session.
C12_NotMidDialog == ~(smtp.stage = "exit" /\ smtp.exc = "KeyboardInterrupt")
C12_NoProbeAfterInterrupt ==
    \A i, j \in DOMAIN log : i < j /\ log[i].ev = "interrupt" => log[j].ev # "probe"
C12_TornDown == pc = "done" => ~smtp.open
C12_InterruptBetweenProbes ==
    C12_NotMidDialog /\ C12_NoProbeAfterInterrupt /\ C12_TornDown

\* C17: probes are strictly sequential and sessions are never reused: of
\* two probes of a run the earlier has returned before the later begins,
\* every probe starts on a new, unopened session that has carried nothing,
\* and a session carries at most one RCPT TO, naming the address of its probe.
C17_OneProbeOneSession ==
    /\ \A i, j \in DOMAIN log :
         i < j /\ log[i].ev = "probe" /\ log[j].ev = "probe"
             => \E k \in DOMAIN log : i < k /\ k < j /\ log[k].ev = "return"
                                       /\ log[k].addr = log[i].addr
    /\ smtp.stage = "connect" => smtp = Call(smtp.kind, smtp.addr)
    /\ smtp.rcpts <= 1
    /\ smtp.rcpts = 1 => smtp.to = smtp.addr
    /\ smtp.rcpt # 0 => smtp.rcpts = 1
C17_Witness ==
    /\ Len(AllProbes) = 4
    /\ smtp.kind = "cand" /\ smtp.addr = permutations[2]
    /\ smtp.stage = "returned" /\ smtp.rcpts = 1 /\ smtp.rcpt = 250

\* C18: a summary is printed exactly when every candidate of the list has
\* been probed; it reports the number of candidates whose probe returned
\* true out of the length of the list, and the running count never exceeds
\* the number of candidates probed so far.
AcceptedCands == SelectSeq(Returns("cand"), LAMBDA e : e.ok)
C18_SummaryIffAllProbed ==
    /\ \A i \in DOMAIN log :
         log[i].ev = "print_summary"
             => /\ Len(Returns("cand")) = Len(permutations)
                /\ log[i].n = Len(AcceptedCands)
                /\ log[i].total = Len(permutations)
    /\ valid_count <= Len(Returns("cand"))
    /\ (Ended /\ Len(permutations) > 0 /\ Len(Returns("cand")) = Len(permutations))
           => Printed("print_summary")

\* ------------------------------------------------------ _motta_split
\* harvester.py lines 152-177, called on its own for every list, part
\* count and part number within the bounds
MaxItems == 5
MaxParts == 4
Items == {"x", "y"}
PartCounts == -1 .. MaxParts          \* --total-parts, type=int
PartNumbers == -1 .. (MaxParts + 1)   \* --part, type=int

Min(a, b) == IF a <= b THEN a ELSE b
Max(a, b) == IF a >= b THEN a ELSE b

\* Python's a // b and a % b for b # 0: the quotient is rounded down
FloorDiv(a, b) ==
    IF b > 0
    THEN (IF a >= 0 THEN a \div b ELSE -(((-a) + b - 1) \div b))
    ELSE (IF a <= 0 THEN (-a) \div (-b) ELSE -((a + (-b) - 1) \div (-b)))
PyMod(a, b) == a - b * FloorDiv(a, b)

\* Python's s[a:b] on 0-based indexes: negative indexes count from the
\* end, and both ends are clamped to the sequence
PySlice(s, a, b) ==
    LET n == Len(s)
        lo == IF a < 0 THEN Max(a + n, 0) ELSE Min(a, n)
        hi == IF b < 0 THEN Max(b + n, 0) ELSE Min(b, n)
    IN  IF lo >= hi THEN <<>> ELSE SubSeq(s, lo + 1, hi)

\* line 166: if not 1 <= selected_part <= total_parts
InvalidPart_ZeroAllowed(total_parts, selected_part) ==
    ~(0 <= selected_part /\ selected_part <= total_parts)
InvalidPart(total_parts, selected_part) ==
    ~(1 <= selected_part /\ selected_part <= total_parts)

\* lines 170-174
StartIdx_NoRemainder(n, total_parts, selected_part) ==
    (selected_part - 1) * FloorDiv(n, total_parts)
StartIdx(n, total_parts, selected_part) ==
    (selected_part - 1) * FloorDiv(n, total_parts)
        + Min(selected_part - 1, PyMod(n, total_parts))

\* line 175
EndIdx_Strict(n, total_parts, selected_part) ==
    StartIdx(n, total_parts, selected_part) + FloorDiv(n, total_parts)
        + (IF selected_part < PyMod(n, total_parts) THEN 1 ELSE 0)
EndIdx(n, total_parts, selected_part) ==
    StartIdx(n, total_parts, selected_part) + FloorDiv(n, total_parts)
        + (IF selected_part <= PyMod(n, total_parts) THEN 1 ELSE 0)

\* what a call does: the exception it raises, or the slice it returns with
\* the indexes it was cut at
SplitRaises(e) == [exc |-> e, result |-> <<>>, start_idx |-> 0, end_idx |-> 0]
motta_split(perms, total_parts, selected_part) ==
    IF InvalidPart(total_parts, selected_part) THEN SplitRaises("ValueError")
    ELSE IF total_parts = 0 THEN SplitRaises("ZeroDivisionError")
    ELSE [exc |-> None,
          result |-> PySlice(perms, StartIdx(Len(perms), total_parts, selected_part),
                                    EndIdx(Len(perms), total_parts, selected_part)),
          start_idx |-> StartIdx(Len(perms), total_parts, selected_part),
          end_idx |-> EndIdx(Len(perms), total_parts, selected_part)]

SplitInit ==
    /\ \E s \in SeqsUpTo(Items, MaxItems), t \in PartCounts :
         split = [pc |-> "idle", permutations |-> s, total_parts |-> t, selected_part |-> 0,
                  call |-> SplitRaises(None), slices |-> <<>>]
    /\ permutations = <<>> /\ no_check = FALSE /\ check_email = None /\ delay = <<0, 1>>
    /\ args = NoPart /\ all_permutations = <<>> /\ gen = NoGen /\ run_domain = "d" /\ hunt = NoHunt /\ twin = NoTwin /\ other = NoOther
    /\ RunAt("off")

\* one call, with any part number
SplitCall ==
    /\ split.pc # "off"
    /\ \E p \in PartNumbers :
         LET c == motta_split(split.permutations, split.total_parts, p)
         IN  split' = [split EXCEPT !.selected_part = p, !.call = c,
                                    !.pc = IF c.exc = None THEN "returned" ELSE "raised"]
    /\ UNCHANGED <<permutations, no_check, check_email, delay, args, all_permutations, gen, run_domain, hunt, twin,
                   other, run>>

\* the parts taken one after the other, as the runs that share a list do:
\* part 1, then part 2, ... each slice kept
SplitCollect ==
    /\ split.pc # "off"
    /\ Len(split.slices) < split.total_parts
    /\ LET p == Len(split.slices) + 1
           c == motta_split(split.permutations, split.total_parts, p)
       IN  split' = [split EXCEPT !.selected_part = p, !.call = c,
                                  !.pc = IF c.exc = None THEN "returned" ELSE "raised",
                                  !.slices = IF c.exc = None THEN Append(@, c) ELSE @]
    /\ UNCHANGED <<permutations, no_check, check_email, delay, args, all_permutations, gen, run_domain, hunt, twin,
                   other, run>>

SplitNext == SplitCall \/ SplitCollect
SplitSpec == SplitInit /\ [][SplitNext]_vars

RECURSIVE Concat(_)
Concat(ss) == IF ss = <<>> THEN <<>> ELSE Head(ss).result \o Concat(Tail(ss))

\* C13: the slices of parts 1..total_parts, in part order, tile the list:
\* each slice is the run of elements between its two indexes, the first
\* starts at 0, each next one starts where the previous one ended, no two
\* differ in size by more than 1, and once all parts are taken their
\* concatenation is the list itself.
C13_SlicesTileTheList ==
    LET sl == split.slices
        perms == split.permutations
    IN  split.pc # "off" =>
        /\ \A i \in DOMAIN sl :
             /\ 0 <= sl[i].start_idx /\ sl[i].start_idx <= sl[i].end_idx
             /\ sl[i].end_idx <= Len(perms)
             /\ Len(sl[i].result) = sl[i].end_idx - sl[i].start_idx
             /\ \A k \in DOMAIN sl[i].result : sl[i].result[k] = perms[sl[i].start_idx + k]
        /\ sl # <<>> => sl[1].start_idx = 0
        /\ \A i \in DOMAIN sl : i > 1 => sl[i].start_idx = sl[i - 1].end_idx
        /\ \A i, j \in DOMAIN sl : Len(sl[i].result) - Len(sl[j].result) <= 1
        /\ (split.total_parts >= 1 /\ Len(sl) = split.total_parts) =>
             /\ Concat(sl) = perms
             /\ sl[Len(sl)].end_idx = Len(perms)
C13_Witness ==
    /\ split.pc = "returned"
    /\ split.permutations = <<"x", "y", "y", "x", "y">>
    /\ split.total_parts = 3
    /\ Len(split.slices) = 3

\* C14: a call with a part number in range returns a slice of N // total_parts
\* elements, one more for the first N % total_parts parts, cut from index
\* (p-1) * (N // total_parts) + min(p-1, N % total_parts).
C14_SliceSizeAndStart ==
    split.pc = "returned" =>
        LET n == Len(split.permutations)
            t == split.total_parts
            p == split.selected_part
        IN  /\ Len(split.call.result) = (n \div t) + (IF p <= n % t THEN 1 ELSE 0)
            /\ split.call.start_idx = (p - 1) * (n \div t) + Min(p - 1, n % t)
            /\ split.call.result = [k \in 1 .. Len(split.call.result) |->
                                       split.permutations[split.call.start_idx + k]]
C14_Witness ==
    /\ split.pc = "returned"
    /\ Len(split.permutations) = 5 /\ split.total_parts = 3 /\ split.selected_part = 2
    /\ Len(split.call.result) = 2 /\ split.call.start_idx = 2

\* C15: a call raises ValueError, and returns no slice, exactly when its part
\* number is outside 1..total_parts (0, negative, above total_parts, or any
\* number when total_parts < 1); it raises nothing else.
C15_RaisesIffOutOfRange ==
    split.pc \in {"returned", "raised"} =>
        LET outside == split.selected_part < 1 \/ split.selected_part > split.total_parts
        IN  /\ split.pc = "raised" <=> outside
            /\ split.pc = "raised" => split.call.exc = "ValueError" /\ split.call.result = <<>>
            /\ split.pc = "returned" => split.call.exc = None
C15_Witness ==
    /\ split.pc = "raised"
    /\ split.selected_part = 1 /\ split.total_parts = 0
    /\ split.call.exc = "ValueError"

\* --------------------------------------------- the validate command
\* harvester.py, main and MottaHunter.validate_targets: the part of the
\* generated list is chosen, then the run above validates it
MaxTotal == 2
CliParts == -1 .. (MaxTotal + 1)      \* --part, type=int
CliTotals == 1 .. MaxTotal            \* --total-parts, type=int

\* "args.part" used as a condition: None (no --part) and 0 are both false
PartTruthy(a) == a.part_given /\ a.part # 0

CliInit ==
    /\ all_permutations \in SeqsUpTo(Addresses, MaxCands)
    /\ \E g \in BOOLEAN, p \in CliParts, t \in CliTotals :
         args = [part_given |-> g, part |-> IF g THEN p ELSE 0, total_parts |-> t]
    /\ permutations = <<>>
    /\ no_check \in BOOLEAN
    /\ check_email = None
    /\ delay = <<0, 1>>
    /\ split = NoSplit
    /\ gen = NoGen
    /\ run_domain = "d" /\ hunt = NoHunt /\ twin = NoTwin /\ other = NoOther
    /\ RunAt("main")

\* main, lines 304-306
MainCheck ==
    /\ pc = "main"
    /\ IF PartTruthy(args) /\ ~(1 <= args.part /\ args.part <= args.total_parts)
       THEN /\ log' = Append(log, Ev("print_part_error"))
            /\ pc' = "done"
            /\ outcome' = "exit_1"
       ELSE /\ pc' = "validate_targets"
            /\ UNCHANGED <<log, outcome>>
    /\ UNCHANGED <<inputs, mx_server, info_valid, is_catch_all, idx, valid_count, smtp, ret,
                   delay_duration, interrupts>>

\* validate_targets, lines 119-129; an exception of _motta_split goes to
\* the handler of main, lines 336-341
ValidateTargets ==
    /\ pc = "validate_targets"
    /\ IF PartTruthy(args)
       THEN LET c == motta_split(all_permutations, args.total_parts, args.part)
            IN  IF c.exc # None
                THEN /\ log' = Append(log, Ev("print_unexpected_error"))
                     /\ pc' = "done"
                     /\ outcome' = "exit_1"
                     /\ UNCHANGED permutations
                ELSE /\ permutations' = c.result
                     /\ log' = Append(log, [Ev("print_using_part") EXCEPT !.n = args.part,
                                                                         !.total = args.total_parts])
                     /\ pc' = "resolve"
                     /\ UNCHANGED outcome
       ELSE /\ permutations' = all_permutations
            /\ pc' = "resolve"
            /\ UNCHANGED <<log, outcome>>
    /\ UNCHANGED <<no_check, check_email, delay, args, all_permutations, split, gen, run_domain,
                   hunt, twin, other, mx_server, info_valid, is_catch_all, idx, valid_count, smtp, ret,
                   delay_duration, interrupts>>

CliNext == MainCheck \/ ValidateTargets \/ Next
CliSpec == CliInit /\ [][CliNext]_vars

\* C16: a run asked for a part outside 1..total_parts (0 included) fails
\* before MX resolution and before any probe: it never queries the MX
\* records and never probes any address.
C16_InvalidPartFailsFast ==
    (args.part_given /\ (args.part < 1 \/ args.part > args.total_parts))
        => /\ ~Printed("mx_query")
           /\ Len(AllProbes) = 0

\* ------------------------------------- motta_generate_permutations
\* email_validation.py lines 27-79, called on its own; a string is the
\* sequence of its characters
MaxNameLen == 4
Letters == {"a", "B"}
Names == SeqsUpTo(Letters, MaxNameLen)          \* the empty name included
Domains == {<<"d">>, <<"D", ".", "x">>}
Levels == 1 .. 3                                \* --level, choices=[1, 2, 3]

\* str.lower()
Lower(c) == CASE c = "A" -> "a" [] c = "B" -> "b" [] c = "D" -> "d" [] OTHER -> c
LowerStr_Unchanged(str) == str
LowerStr(str) == [i \in 1 .. Len(str) |-> Lower(str[i])]

\* f"{local}@{domain}" for a local part given by its pieces
Addr(local, domain) == local \o <<"@">> \o domain

\* lines 48-55
LightPatterns(f, l, d) ==
    << Addr(LowerStr(f) \o LowerStr(l), d),
       Addr(LowerStr(f) \o <<".">> \o LowerStr(l), d),
       Addr(<<Lower(f[1])>> \o LowerStr(l), d),
       Addr(<<Lower(f[1])>> \o <<".">> \o LowerStr(l), d),
       Addr(<<Lower(f[1])>> \o <<"_">> \o LowerStr(l), d),
       Addr(LowerStr(f) \o <<"-">> \o LowerStr(l), d) >>

\* lines 59-66
MediumPatterns(f, l, d) ==
    << Addr(LowerStr(f), d),
       Addr(LowerStr(l), d),
       Addr(LowerStr(f) \o <<"_">> \o LowerStr(l), d),
       Addr(LowerStr(l) \o <<".">> \o LowerStr(f), d),
       Addr(LowerStr(l) \o <<"_">> \o LowerStr(f), d),
       Addr(LowerStr(l) \o LowerStr(f), d) >>

\* lines 70-77
HeavyPatterns(f, l, d) ==
    << Addr(<<Lower(f[1])>> \o LowerStr(PySlice(l, 0, 3)), d),
       Addr(<<Lower(f[1])>> \o <<".">> \o LowerStr(PySlice(l, 0, 3)), d),
       Addr(LowerStr(PySlice(f, 0, 3)) \o <<Lower(l[1])>>, d),
       Addr(LowerStr(PySlice(l, 0, 3)) \o <<Lower(f[1])>>, d),
       Addr(LowerStr(f) \o <<Lower(l[1])>>, d),
       Addr(LowerStr(l) \o <<Lower(f[1])>>, d) >>

\* the list built by lines 48-77: each level extends the list of the one below
PatternList_MediumAlways(f, l, d, level) ==
    LightPatterns(f, l, d) \o MediumPatterns(f, l, d)
        \o (IF level >= 3 THEN HeavyPatterns(f, l, d) ELSE <<>>)
PatternList_HeavyReplaces(f, l, d, level) ==
    IF level >= 3 THEN LightPatterns(f, l, d) \o HeavyPatterns(f, l, d)
    ELSE LightPatterns(f, l, d) \o (IF level >= 2 THEN MediumPatterns(f, l, d) ELSE <<>>)
PatternList(f, l, d, level) ==
    LightPatterns(f, l, d)
        \o (IF level >= 2 THEN MediumPatterns(f, l, d) ELSE <<>>)
        \o (IF level >= 3 THEN HeavyPatterns(f, l, d) ELSE <<>>)

Range(seq) == {seq[i] : i \in DOMAIN seq}

\* line 79, list(dict.fromkeys(permutations)): a key keeps the position of
\* its first insertion
RECURSIVE DictFromKeys_KeepLast(_)
DictFromKeys_KeepLast(seq) ==
    IF seq = <<>> THEN <<>>
    ELSE IF Head(seq) \in Range(Tail(seq)) THEN DictFromKeys_KeepLast(Tail(seq))
    ELSE <<Head(seq)>> \o DictFromKeys_KeepLast(Tail(seq))
RECURSIVE DictFromKeys(_)
DictFromKeys(seq) ==
    IF seq = <<>> THEN <<>>
    ELSE LET keys == DictFromKeys(SubSeq(seq, 1, Len(seq) - 1))
             last == seq[Len(seq)]
         IN  IF last \in Range(keys) THEN keys ELSE Append(keys, last)

\* a call: first_name[0] (line 50) and last_name[0] (lines 73, 75) raise
\* IndexError on an empty string
NotCalled == [called |-> FALSE, exc |-> None, patterns |-> <<>>, result |-> <<>>]
motta_generate_permutations(first_name, last_name, domain, level) ==
    IF first_name = <<>> \/ (level >= 3 /\ last_name = <<>>)
    THEN [NotCalled EXCEPT !.called = TRUE, !.exc = "IndexError"]
    ELSE LET patterns == PatternList(first_name, last_name, LowerStr(domain), level)
         IN  [called |-> TRUE, exc |-> None, patterns |-> patterns,
              result |-> DictFromKeys(patterns)]

GenInit ==
    /\ \E f \in Names, l \in Names, d \in Domains :
         gen = [pc |-> "idle", first_name |-> f, last_name |-> l, domain |-> d,
                out |-> [lv \in Levels |-> NotCalled]]
    /\ permutations = <<>> /\ no_check = FALSE /\ check_email = None /\ delay = <<0, 1>>
    /\ args = NoPart /\ all_permutations = <<>> /\ split = NoSplit /\ run_domain = "d" /\ hunt = NoHunt /\ twin = NoTwin /\ other = NoOther
    /\ RunAt("off")

\* one call at a level not asked yet, its outcome kept by level
Generate ==
    /\ gen.pc # "off"
    /\ \E lv \in Levels :
         /\ ~gen.out[lv].called
         /\ gen' = [gen EXCEPT !.pc = "called",
                               !.out[lv] = motta_generate_permutations(gen.first_name, gen.last_name,
                                                                       gen.domain, lv)]
    /\ UNCHANGED <<permutations, no_check, check_email, delay, args, all_permutations, split, run_domain, hunt, twin,
                   other, run>>

GenNext == Generate
GenSpec == GenInit /\ [][GenNext]_vars

Returned(lv) == gen.out[lv].called /\ gen.out[lv].exc = None
Output(lv) == Range(gen.out[lv].result)
NonEmptyNames == gen.pc # "off" /\ gen.first_name # <<>> /\ gen.last_name # <<>>

\* C19 as stated: for non-empty names the outputs are strictly nested, each
\* level adds at least one address to the level below.
C19_StrictlyNested ==
    NonEmptyNames =>
        /\ Returned(1) /\ Returned(2) => Output(1) \subseteq Output(2) /\ Output(1) # Output(2)
        /\ Returned(2) /\ Returned(3) => Output(2) \subseteq Output(3) /\ Output(2) # Output(3)

\* C19, amended: for non-empty names level 1 is a proper subset of level 2
\* (the bare last name is always new), and level 2 is a subset of level 3,
\* which may add nothing.
C19_Nested ==
    NonEmptyNames =>
        /\ Returned(1) /\ Returned(2) => Output(1) \subseteq Output(2) /\ Output(1) # Output(2)
        /\ Returned(2) /\ Returned(3) => Output(2) \subseteq Output(3)
C19_Witness ==
    /\ NonEmptyNames
    /\ Returned(1) /\ Returned(2) /\ Returned(3)
    /\ Output(1) # Output(2)
    /\ Output(2) = Output(3)

\* C20: the list returned has no repeated address, holds exactly the
\* addresses of the pattern list, and orders them by their first occurrence
\* in that list.
FirstIndex(seq, x) == CHOOSE i \in DOMAIN seq : seq[i] = x /\ \A k \in 1 .. (i - 1) : seq[k] # x
C20_DistinctInFirstOccurrenceOrder ==
    \A lv \in Levels :
        (gen.pc # "off" /\ Returned(lv)) =>
            LET res == gen.out[lv].result
                pat == gen.out[lv].patterns
            IN  /\ \A i, j \in DOMAIN res : i # j => res[i] # res[j]
                /\ Range(res) = Range(pat)
                /\ \A i \in 1 .. (Len(res) - 1) :
                     FirstIndex(pat, res[i]) < FirstIndex(pat, res[i + 1])
C20_Witness ==
    /\ gen.pc = "called" /\ Returned(3)
    /\ gen.first_name = <<"B">> /\ gen.last_name = <<"a", "B">>
    /\ Len(gen.out[3].patterns) = 18
    /\ Len(gen.out[3].result) < 18
    /\ gen.out[3].result[1] = gen.out[3].patterns[3]

\* C21: every address returned, at every level and for names and domain in
\* any letter case, is equal to its own lower-casing, local part and domain
\* alike.
C21_OutputLowerCase ==
    \A lv \in Levels :
        (gen.pc # "off" /\ Returned(lv)) =>
            \A i \in DOMAIN gen.out[lv].result :
                \A k \in DOMAIN gen.out[lv].result[i] :
                    /\ gen.out[lv].result[i][k] \notin {"A", "B", "D"}
                    /\ Lower(gen.out[lv].result[i][k]) = gen.out[lv].result[i][k]
C21_Witness ==
    /\ gen.pc = "called" /\ Returned(3)
    /\ gen.first_name = <<"B", "a", "B", "B">> /\ gen.last_name = <<"a", "B">>
    /\ gen.domain = <<"D", ".", "x">>
    /\ gen.out[3].result[1] = <<"b", "a", "b", "b", "a", "b", "@", "d", ".", "x">>

\* C22: at level 1 the set of addresses returned is exactly the six patterns
\* f+l, f.l, f0+l, f0.l, f0_l, f-l on the lower-cased names, at the
\* lower-cased domain.
C22_LevelOneIsSixPatterns ==
    (gen.pc # "off" /\ Returned(1)) =>
        LET f == [i \in DOMAIN gen.first_name |-> Lower(gen.first_name[i])]
            l == [i \in DOMAIN gen.last_name |-> Lower(gen.last_name[i])]
            at == <<"@">> \o [i \in DOMAIN gen.domain |-> Lower(gen.domain[i])]
            f0 == <<f[1]>>
        IN  Output(1) = { f \o l \o at,
                          f \o <<".">> \o l \o at,
                          f0 \o l \o at,
                          f0 \o <<".">> \o l \o at,
                          f0 \o <<"_">> \o l \o at,
                          f \o <<"-">> \o l \o at }
C22_Witness ==
    /\ gen.pc = "called" /\ Returned(1)
    /\ gen.first_name = <<"B", "a">> /\ gen.last_name = <<"a", "B">> /\ gen.domain = <<"D", ".", "x">>
    /\ Len(gen.out[1].result) = 6
    /\ gen.out[1].result[5] = <<"b", "_", "a", "b", "@", "d", ".", "x">>

\* ---------------------------------------------- claims on the run, II
\* the run has left motta_validate_info_address by a return
PastDetection ==
    \/ pc \in {"gate", "loop", "cand_probe", "pace", "sleep"}
    \/ pc = "done" /\ outcome \in {"gated", "completed"}
    \/ pc = "done" /\ Len(Probes("cand")) > 0

\* C23: catch-all detection probes exactly once in a run: never twice, the
\* one probe names the synthetic address on the MX host of the run, and once
\* detection has returned there has been one such probe whose verdict is the
\* value of is_catch_all.
C23_OneCatchAllProbe ==
    /\ Len(Probes("catchall")) <= 1
    /\ \A i \in DOMAIN Probes("catchall") :
         Probes("catchall")[i].addr = CatchAllAddress /\ Probes("catchall")[i].host = mx_server
    /\ PastDetection =>
         /\ Len(Probes("catchall")) = 1
         /\ Len(Returns("catchall")) = 1
         /\ is_catch_all = Returns("catchall")[1].ok

\* C24: the address-of-record probe is made exactly when no_check is not
\* set: never with no_check, never twice, and without no_check it is the
\* first probe of the run, after the MX query and with its return before
\* the catch-all probe; it names the override address when one was given
\* and info@domain otherwise.
C24_InfoProbe ==
    /\ Len(Probes("info")) <= 1
    /\ no_check => Len(Probes("info")) = 0
    /\ (~no_check /\ (PastDetection \/ Len(AllProbes) > 0)) =>
         /\ Len(Probes("info")) = 1
         /\ AllProbes[1].kind = "info"
         /\ AllProbes[1].host = mx_server
         /\ AllProbes[1].addr = (IF check_email = None THEN InfoAddress ELSE check_email)
    /\ \A i, j \in DOMAIN log :
         (log[i].ev = "probe" /\ log[i].kind = "info") =>
             /\ log[1].ev = "mx_query" /\ i > 1
             /\ (log[j].ev = "probe" /\ log[j].kind = "catchall") =>
                    \E k \in DOMAIN log : i < k /\ k < j /\ log[k].ev = "return" /\ log[k].kind = "info"
C24_Witness ==
    /\ ~no_check /\ check_email = CheckOverride
    /\ Len(Probes("info")) = 1 /\ Probes("info")[1].addr = CheckOverride
    /\ Len(Probes("catchall")) = 1
    /\ pc = "gate"

\* C25: the resolution-failure report (no MX records, or failure to retrieve
\* the MX server) is printed at most once, and only in a run that has made
\* no probe, whatever the delay range is.
FailureReports == SelectSeq(log, LAMBDA e : e.ev \in {"print_no_mx", "print_error"})
C25_ReportOnlyBeforeProbes ==
    /\ Len(FailureReports) <= 1
    /\ Len(FailureReports) = 1 => Len(AllProbes) = 0

\* C26: a run that passed the gates and ended without being cancelled has
\* emitted exactly one result per position of the list, in order, a repeated
\* address being probed and reported once per occurrence; at no time are
\* there more results than positions.
C26_OneResultPerPosition ==
    /\ Len(Results) <= Len(permutations)
    /\ \A i \in DOMAIN Results : Results[i].addr = permutations[i]
    /\ (pc = "done" /\ outcome # "cancelled" /\ (outcome = "completed" \/ Len(Probes("cand")) > 0))
           => /\ Len(Results) = Len(permutations)
              /\ Len(Probes("cand")) = Len(permutations)

\* C27: no probe is retried: a probe call connects at most once, a call
\* that failed to connect or whose RCPT TO was answered by anything but 250
\* (4xx and 5xx included) returns a rejection, and the candidates probed so
\* far are the first positions of the list, each probed once; the address
\* of record and the synthetic address are probed at most once.
C27_NoRetry ==
    /\ smtp.connects <= 1
    /\ smtp.stage \in {"helo", "mail", "rcpt", "exit", "returned"} => smtp.connects = 1
    /\ (smtp.stage = "returned" /\ (smtp.exc # None \/ smtp.rcpt # 250)) => ~ret
    /\ Len(Probes("cand")) <= Len(permutations)
    /\ \A i \in DOMAIN Probes("cand") : Probes("cand")[i].addr = permutations[i]
    /\ pc \in {"loop", "cand_probe", "pace", "sleep"} =>
           Len(Probes("cand")) = (IF pc = "loop" THEN idx - 1 ELSE idx)
    /\ Len(Probes("info")) <= 1
    /\ Len(Probes("catchall")) <= 1
C27_Witness ==
    /\ Len(Probes("cand")) = 2
    /\ ~Returns("cand")[1].ok
    /\ smtp.kind = "cand" /\ smtp.stage = "returned"
    /\ smtp.rcpt = 450 /\ smtp.connects = 1 /\ ~ret

\* C28: the MX records are queried at most once in a run, and every probe
\* made (address of record, catch-all, candidates), also one that follows a
\* failed probe, goes to the exchange of the first record of that one answer.
MxQueries == SelectSeq(log, LAMBDA e : e.ev = "mx_query")
C28_OneQueryOneHost ==
    /\ Len(MxQueries) <= 1
    /\ Len(AllProbes) > 0 =>
         /\ Len(MxQueries) = 1
         /\ log[1].ev = "mx_query"
         /\ log[1].records # <<>>
         /\ \A i \in DOMAIN AllProbes : AllProbes[i].host = log[1].records[1]
C28_Witness ==
    /\ Len(MxQueries) = 1 /\ log[1].records = <<"mx2", "mx1">>
    /\ Len(AllProbes) = 3
    /\ ~Returns("catchall")[1].ok
    /\ AllProbes[3].kind = "cand" /\ AllProbes[3].host = "mx2"
    /\ smtp.stage = "returned" /\ smtp.exc = "OSError"

\* C29: every candidate's result is followed by one delay, drawn within the
\* caller's bounds and slept before anything else happens (the next probe,
\* or the summary after the last candidate); there is no other delay: each
\* sleep follows a result, none precedes the first candidate or surrounds
\* the address-of-record and catch-all probes; a run that ended uncancelled
\* has slept once per result.
Observed == SelectSeq(log, LAMBDA e : e.ev # "interrupt")
Sleeps == SelectSeq(log, LAMBDA e : e.ev = "sleep")
C29_OneDelayPerCandidate ==
    /\ \A i \in DOMAIN Observed :
         Observed[i].ev = "print_result" =>
             /\ i + 1 <= Len(Observed) =>
                    /\ Observed[i + 1].ev = "print_waiting"
                    /\ delay[1] <= Observed[i + 1].n /\ Observed[i + 1].n <= delay[2]
             /\ i + 2 <= Len(Observed) => Observed[i + 2].ev = "sleep"
    /\ \A i \in DOMAIN Observed :
         Observed[i].ev = "sleep" =>
             /\ i > 2
             /\ Observed[i - 1].ev = "print_waiting"
             /\ Observed[i - 2].ev = "print_result"
    /\ \A i \in DOMAIN Observed :
         (Observed[i].ev \in {"probe", "print_summary"}
              /\ \E j \in 1 .. (i - 1) : Observed[j].ev = "print_result")
             => Observed[i - 1].ev = "sleep"
    /\ Ended => Len(Sleeps) = Len(Results)

\* ------------------------------------------------------- termination
\* The run is one sequential thread: a step that is possible is taken,
\* given that every SMTP exchange (timeout=10, line 101) and every sleep
\* returns.
LiveSpec == Spec /\ WF_vars(Next)

\* C30: every run ends; it ends as a resolution failure reported before any
\* probe, a gate abort, a cancellation, or a completion with a summary; and
\* a run that has passed the gates completes, every candidate probed, unless
\* it is interrupted.
C30_Ends == <>(pc = "done")
C30_EndsInOneOfFour ==
    [](pc = "done" =>
          \/ outcome = "no_mx" /\ Len(AllProbes) = 0
          \/ outcome = "error" /\ Len(AllProbes) = 0
          \/ outcome = "gated"
          \/ outcome = "cancelled"
          \/ outcome = "completed" /\ Printed("print_summary"))
C30_CompletesPastGates ==
    (pc = "loop" /\ interrupts = 0)
        ~> (interrupts > 0
            \/ (outcome = "completed" /\ Len(Probes("cand")) = Len(permutations)))
C30_RunTerminates == C30_Ends /\ C30_EndsInOneOfFour /\ C30_CompletesPastGates

\* C34: for every first name, last name and domain, the output of a level
\* is a prefix of the output of the next level: once level 1 has returned a
\* list, level 2 returns a list that starts with it, and once level 2 has
\* returned a list, level 3 returns a list that starts with it.
IsPrefix(a, b) == Len(a) <= Len(b) /\ SubSeq(b, 1, Len(a)) = a
RunDomains == {"d", "D"}
DomainInit ==
    /\ permutations \in SeqsUpTo({"a@d"}, 1)
    /\ no_check \in BOOLEAN
    /\ check_email \in {None, CheckOverride}
    /\ delay = <<0, 1>>
    /\ args = NoPart
    /\ all_permutations = permutations
    /\ split = NoSplit
    /\ gen = NoGen
    /\ run_domain \in RunDomains
    /\ hunt = NoHunt /\ twin = NoTwin /\ other = NoOther
    /\ RunAt("resolve")
DomainSpec == DomainInit /\ [][Next]_vars

\* C32: the domain is lower-cased before every use in a run: the name of
\* the MX query, the suffix of info@domain and the suffix of the synthetic
\* catch-all address are the lower-cased domain.
C32_DomainLowerCased ==
    \A i \in DOMAIN log :
        /\ log[i].ev = "mx_query" => log[i].addr = Lower(run_domain)
        /\ (log[i].ev = "probe" /\ log[i].kind = "info" /\ check_email = None)
               => log[i].addr = "info@" \o Lower(run_domain)
        /\ (log[i].ev = "probe" /\ log[i].kind = "catchall")
               => log[i].addr = "mottasec-rnd@" \o Lower(run_domain)

\* ------------------------------------------- hunt_for_emails
\* the sources of a hunt, in the order of their blocks in hunt_for_emails
Sources == <<"google", "twitter", "linkedin">>
\* the addresses a scraper can find
Found == {"x@d", "y@d"}
\* what a call of a scraper does: it returns a list of addresses, or raises
ScrapeOutcomes ==
    [exc : {None}, emails : SUBSET Found]
        \cup [exc : {"Exception", "KeyboardInterrupt"}, emails : {{}}]
\* the --delay arguments of a hunt
HuntDelays == {<<0, 1>>, <<-1, 0>>, <<1, 1>>}
HuntEv(e, src) == [ev |-> e, src |-> src, n |-> 0, ok |-> FALSE]
\* a handler that lets every failure of a source through
HuntHandlerCatches_Nothing(e) == FALSE
\* except Exception as e: around each source
HuntHandlerCatches(e) == e # "KeyboardInterrupt"
\* a pause that sleeps whatever the duration
PauseSleeps_Always(d) == TRUE
\* if delay > 0 and not isinstance(self.args, MagicMock): time.sleep(delay)
PauseSleeps(d) == d > 0
\* a set that is replaced by the findings of the last source
Update_Replaces(emails, found) == found
\* self.emails.update(found)
Update(emails, found) == emails \cup found
\* findings preserved whatever the set
Preserves_Always(emails) == TRUE
\* if self.emails:
Preserves(emails) == emails # {}
HuntInit ==
    /\ permutations = <<>>
    /\ no_check = FALSE
    /\ check_email = None
    /\ delay = <<0, 1>>
    /\ args = NoPart
    /\ all_permutations = <<>>
    /\ split = NoSplit
    /\ gen = NoGen
    /\ run_domain = "d"
    /\ \E en \in [{"google", "twitter", "linkedin"} -> BOOLEAN], d \in HuntDelays :
           hunt = [pc |-> "google", enabled |-> en, delay |-> d,
                   emails |-> {}, log |-> <<>>, outcome |-> "running"]
    /\ twin = NoTwin
    /\ other = NoOther
    /\ RunAt("off")
\* one block of hunt_for_emails: the source src, then on to the block next
HuntSource(src, next) ==
    /\ hunt.pc = src
    /\ IF ~hunt.enabled[src]
       THEN hunt' = [hunt EXCEPT !.pc = next]
       ELSE \E o \in ScrapeOutcomes :
               IF o.exc # None
               THEN IF HuntHandlerCatches(o.exc)
                    THEN hunt' = [hunt EXCEPT
                             !.pc = next,
                             !.log = @ \o <<HuntEv("visit", src),
                                            HuntEv("error", src)>>]
                    ELSE hunt' = [hunt EXCEPT
                             !.pc = "done",
                             !.outcome = IF o.exc = "KeyboardInterrupt"
                                         THEN "cancelled" ELSE "raised",
                             !.log = @ \o <<HuntEv("visit", src)>>]
               ELSE \E d \in DelayDraws(hunt.delay) :
                       hunt' = [hunt EXCEPT
                           !.pc = next,
                           !.emails = Update(@, o.emails),
                           !.log = @ \o <<HuntEv("visit", src),
                                          HuntEv("update", src),
                                          [HuntEv("pause", src) EXCEPT
                                               !.n = d,
                                               !.ok = PauseSleeps(d)]>>]
    /\ UNCHANGED <<permutations, no_check, check_email, delay, args,
                   all_permutations, split, gen, run_domain, twin, other, run>>
HuntGoogle == HuntSource("google", "twitter")
HuntTwitter == HuntSource("twitter", "linkedin")
HuntLinkedin == HuntSource("linkedin", "preserve")
\* if self.emails: self._preserve_findings(); return self.emails
HuntPreserve ==
    /\ hunt.pc = "preserve"
    /\ hunt' = [hunt EXCEPT
           !.pc = "done",
           !.outcome = "returned",
           !.log = IF Preserves(hunt.emails)
                   THEN @ \o <<HuntEv("preserve", "all")>> ELSE @]
    /\ UNCHANGED <<permutations, no_check, check_email, delay, args,
                   all_permutations, split, gen, run_domain, twin, other, run>>
HuntNext == HuntGoogle \/ HuntTwitter \/ HuntLinkedin \/ HuntPreserve
HuntSpec == HuntInit /\ [][HuntNext]_vars

\* the position of a source in the fixed order
Rank(src) == CHOOSE i \in DOMAIN Sources : Sources[i] = src
HuntEvents(e) == SelectSeq(hunt.log, LAMBDA x : x.ev = e)
HuntCount(e, src) ==
    Cardinality({i \in DOMAIN hunt.log :
                    hunt.log[i].ev = e /\ hunt.log[i].src = src})
\* the blocks that the hunt has gone through
HuntPassed(src) ==
    \/ hunt.pc \in {"preserve", "done"} /\ hunt.outcome # "cancelled"
    \/ hunt.pc \in {"twitter", "linkedin"} /\ Rank(hunt.pc) > Rank(src)
HuntState ==
    /\ \A i, j \in DOMAIN HuntEvents("visit") :
           i < j => Rank(HuntEvents("visit")[i].src)
                        < Rank(HuntEvents("visit")[j].src)
    /\ \A i \in DOMAIN HuntEvents("visit") :
           hunt.enabled[HuntEvents("visit")[i].src]
    /\ \A k \in DOMAIN Sources :
           (HuntPassed(Sources[k]) /\ hunt.enabled[Sources[k]])
               => HuntCount("visit", Sources[k]) = 1
    /\ \A k \in DOMAIN Sources :
           /\ HuntCount("pause", Sources[k]) = HuntCount("update", Sources[k])
           /\ HuntCount("update", Sources[k]) + HuntCount("error", Sources[k])
                  <= HuntCount("visit", Sources[k])
           /\ HuntCount("error", Sources[k]) = 1
                  => HuntCount("pause", Sources[k]) = 0
    /\ \A i \in DOMAIN hunt.log :
           /\ hunt.log[i].ev = "update"
                  => /\ i < Len(hunt.log)
                     /\ hunt.log[i + 1].ev = "pause"
                     /\ hunt.log[i + 1].src = hunt.log[i].src
           /\ hunt.log[i].ev = "pause"
                  => /\ i > 1
                     /\ hunt.log[i - 1].ev = "update"
                     /\ hunt.log[i].ok = (hunt.log[i].n > 0)
    /\ Len(HuntEvents("preserve")) > 0 => hunt.emails # {}
    /\ hunt.outcome = "returned"
           => (Len(HuntEvents("preserve")) = 1) = (hunt.emails # {})
    /\ hunt.outcome # "raised"
HuntGrows == hunt.emails \subseteq hunt'.emails

\* C35: in hunt_for_emails the enabled sources are visited in the order
\* Google, Twitter, LinkedIn, each once, and a failure of one source does not
\* keep the later enabled sources from being visited; the set of addresses
\* only grows; one pause is taken right after each source that returned
\* without error and none after a source that failed (the pause sleeps when
\* the drawn duration is positive); the findings are preserved only when the
\* set is not empty, and then once, before the hunt returns.
C35_HuntVisitsAllSources == [](hunt.pc # "off" => HuntState) /\ [][HuntGrows]_vars
C35_Witness ==
    /\ hunt.outcome = "returned"
    /\ HuntCount("error", "google") = 1
    /\ HuntCount("pause", "twitter") = 1
    /\ HuntCount("visit", "linkedin") = 1
    /\ hunt.emails = Found
    /\ Len(HuntEvents("preserve")) = 1

\* ------------------------------------------- motta_validate_scraped_emails
\* What the calls made by a run gave it, read off its log: the outcome of
\* resolve, the values returned by the probe calls and the delays drawn.
DnsOf(lg) == [exc |-> lg[1].kind, records |-> lg[1].records]
VerdictsOf(lg) ==
    LET r == SelectSeq(lg, LAMBDA e : e.ev = "return") IN [i \in DOMAIN r |-> r[i].ok]
DrawsOf(lg) ==
    LET w == SelectSeq(lg, LAMBDA e : e.ev = "print_waiting") IN [i \in DOMAIN w |-> w[i].n]

\* lines 118-165 as one call: the events of motta_validate_info_address, the
\* pair it returns and the probe results it left unused
motta_validate_info_address(dom, mx, nc, ce, verdicts) ==
    IF nc
    THEN [log |-> <<>>, info_valid |-> TRUE, is_catch_all |-> FALSE, rest |-> verdicts]
    ELSE LET test_email == IF ce # None THEN ce ELSE InfoAddressAt(dom)
             test_addr == CatchAllAddressAt(dom)
         IN  [log |-> <<EvProbe("info", test_email, mx),
                        EvReturn("info", test_email, verdicts[1]),
                        EvInfo(test_email, verdicts[1]),
                        EvProbe("catchall", test_addr, mx),
                        EvReturn("catchall", test_addr, verdicts[2])>>
                      \o (IF verdicts[2] THEN <<Ev("print_catch_all")>> ELSE <<>>),
              info_valid |-> verdicts[1],
              is_catch_all |-> verdicts[2],
              rest |-> SubSeq(verdicts, 3, Len(verdicts))]

\* line 258: if not info_valid or is_catch_all: return
ScrapedGateAborts_IgnoresCatchAll(iv, ca) == ~iv
ScrapedGateAborts(iv, ca) == (~iv) \/ ca
\* line 282: except Exception as e
ScrapedHandlerCatches(e) == e # "KeyboardInterrupt"
\* line 266: valid_count += 1, under "if is_valid"
ScrapedCount_Always(count, is_valid) == count + 1
ScrapedCount(count, is_valid) == IF is_valid THEN count + 1 ELSE count

\* lines 262-277: the for loop over emails from position i on, then the summary
RECURSIVE ScrapedLoop(_, _, _, _, _, _, _)
ScrapedLoop(emails, i, valid, mx, verdicts, draws, lg) ==
    IF i > Len(emails)
    THEN [pc |-> "done", log |-> Append(lg, EvSummary(valid, Len(emails))),
          outcome |-> "completed", valid_count |-> valid]
    ELSE LET is_valid == Head(verdicts)
             delay_dur == Head(draws)
             count == ScrapedCount(valid, is_valid)
             lg1 == lg \o <<EvProbe("cand", emails[i], mx),
                            EvReturn("cand", emails[i], is_valid),
                            EvResult(emails[i], is_valid),
                            [Ev("print_waiting") EXCEPT !.n = delay_dur]>>
         IN  IF delay_dur < 0
             THEN IF ScrapedHandlerCatches("ValueError")
                  THEN [pc |-> "done", log |-> Append(lg1, Ev("print_error")),
                        outcome |-> "error", valid_count |-> count]
                  ELSE [pc |-> "done", log |-> lg1,
                        outcome |-> "raised", valid_count |-> count]
             ELSE ScrapedLoop(emails, i + 1, count, mx, Tail(verdicts), Tail(draws),
                              Append(lg1, Ev("sleep")))

\* lines 226-283 as one call, given what resolve, the probe calls and
\* random.uniform give it
motta_validate_scraped_emails(emails, dom, nc, ce, dns, verdicts, draws) ==
    LET query == [Ev("mx_query") EXCEPT !.kind = dns.exc, !.addr = dom,
                                        !.records = dns.records]
    IN  IF dns.exc # None
        THEN IF ScrapedHandlerCatches(dns.exc)
             THEN [pc |-> "done", log |-> <<query, Ev("print_error")>>,
                   outcome |-> "error", valid_count |-> 0]
             ELSE [pc |-> "done", log |-> <<query>>,
                   outcome |-> "raised", valid_count |-> 0]
        ELSE IF dns.records = <<>>
        THEN [pc |-> "done", log |-> <<query, Ev("print_no_mx")>>,
              outcome |-> "no_mx", valid_count |-> 0]
        ELSE LET mx == dns.records[1]
                 info == motta_validate_info_address(dom, mx, nc, ce, verdicts)
             IN  IF ScrapedGateAborts(info.info_valid, info.is_catch_all)
                 THEN [pc |-> "done", log |-> <<query>> \o info.log,
                       outcome |-> "gated", valid_count |-> 0]
                 ELSE ScrapedLoop(emails, 1, 0, mx, info.rest, draws,
                                  <<query>> \o info.log)

\* the twin is called with the arguments of the run that has ended, and
\* resolve, the server and random.uniform answer it as they answered the run
ScrapedCall ==
    /\ pc = "done"
    /\ interrupts = 0
    /\ twin = NoTwin
    /\ twin' = motta_validate_scraped_emails(permutations, run_domain, no_check,
                                             check_email, DnsOf(log), VerdictsOf(log),
                                             DrawsOf(log))
    /\ UNCHANGED <<permutations, no_check, check_email, delay, args, all_permutations,
                   split, gen, run_domain, hunt, other, run>>
TwinNext == Next \/ ScrapedCall
TwinSpec == Init /\ [][TwinNext]_vars

\* C33: motta_validate_email_permutations and motta_validate_scraped_emails
\* are equivalent: on the same list, domain, no_check and check_email, with
\* the same answers from resolve, from the server and from random.uniform,
\* the twin makes the same MX query, probes, result lines and sleeps in the
\* same order, ends in the same outcome and prints the same summary.
C33_TwinsEquivalent ==
    twin.pc = "done" =>
        /\ twin.log = log
        /\ twin.outcome = outcome
        /\ twin.valid_count = valid_count
C33_Witness ==
    /\ twin.pc = "done"
    /\ twin.outcome = "completed"
    /\ Len(twin.log) > 12
    /\ twin.valid_count = 1
    /\ Len(permutations) = 2

\* ------------------------------------------- two runs, interleaved
\* Everything a run of motta_validate_email_permutations works on is an
\* argument or a local variable of its own call (lines 167-224) and of the
\* calls it makes (the SMTP object of line 101 included); the module has no
\* global that a run writes.  A worker is that frame, with its own output.
Me ==
    [permutations |-> permutations, no_check |-> no_check, pc |-> pc,
     mx_server |-> mx_server, info_valid |-> info_valid,
     is_catch_all |-> is_catch_all, idx |-> idx, valid_count |-> valid_count,
     outcome |-> outcome, smtp |-> smtp, ret |-> ret,
     delay_duration |-> delay_duration, log |-> log]
\* a worker about to start on the list perms
WorkerAt(perms, nc) ==
    [permutations |-> perms, no_check |-> nc, pc |-> "resolve",
     mx_server |-> None, info_valid |-> FALSE, is_catch_all |-> FALSE,
     idx |-> 1, valid_count |-> 0, outcome |-> "running", smtp |-> NoSession,
     ret |-> FALSE, delay_duration |-> 0, log |-> <<>>]
\* the frame w gets the processor
Resume(w) ==
    /\ permutations' = w.permutations
    /\ no_check' = w.no_check
    /\ pc' = w.pc
    /\ mx_server' = w.mx_server
    /\ info_valid' = w.info_valid
    /\ is_catch_all' = w.is_catch_all
    /\ idx' = w.idx
    /\ valid_count' = w.valid_count
    /\ outcome' = w.outcome
    /\ smtp' = w.smtp
    /\ ret' = w.ret
    /\ delay_duration' = w.delay_duration
    /\ log' = w.log
\* a switch after which the two runs count their valid addresses in one counter
Switch_SharedCount ==
    /\ other # NoOther
    /\ other.pc # "done"
    /\ other' = Me
    /\ Resume([other EXCEPT !.valid_count = valid_count])
    /\ UNCHANGED <<check_email, delay, args, all_permutations, split, gen,
                   run_domain, hunt, twin, interrupts>>
\* the scheduler takes the processor from the running worker and gives it to
\* the other one, which has not ended; each finds its frame as it left it
Switch ==
    /\ other # NoOther
    /\ other.pc # "done"
    /\ other' = Me
    /\ Resume(other)
    /\ UNCHANGED <<check_email, delay, args, all_permutations, split, gen,
                   run_domain, hunt, twin, interrupts>>
\* two workers, one per part of the list <<"a@d", "b@d">>
PairInit ==
    /\ permutations = <<"a@d">>
    /\ no_check = FALSE
    /\ check_email = None
    /\ delay = <<0, 1>>
    /\ args = NoPart
    /\ all_permutations = <<"a@d", "b@d">>
    /\ split = NoSplit
    /\ gen = NoGen
    /\ run_domain = "d"
    /\ hunt = NoHunt
    /\ twin = NoTwin
    /\ other = WorkerAt(<<"b@d">>, TRUE)
    /\ RunAt("resolve")
PairNext ==
    \/ Resolve
    \/ InfoCheck
    \/ InfoReturn
    \/ CatchAllReturn
    \/ Gate
    \/ LoopNext
    \/ CandReturn
    \/ PaceDraw
    \/ Sleep
    \/ ProbeConnect
    \/ ProbeHelo
    \/ ProbeMail
    \/ ProbeRcpt
    \/ ProbeExit
    \/ Switch
PairSpec == PairInit /\ [][PairNext]_vars

\* lines 203-221 as one call: the for loop from position i on, then the summary
RECURSIVE PermutationsLoop(_, _, _, _, _, _, _)
PermutationsLoop(perms, i, valid, mx, verdicts, draws, lg) ==
    IF i > Len(perms)
    THEN [log |-> Append(lg, EvSummary(valid, Len(perms))),
          outcome |-> "completed", valid_count |-> valid]
    ELSE LET is_valid == Head(verdicts)
             email == NextCandidate(perms, i)
             count == IF is_valid THEN valid + 1 ELSE valid
             lg1 == lg \o <<EvProbe("cand", email, mx),
                            EvReturn("cand", email, is_valid),
                            EvResult(email, is_valid),
                            [Ev("print_waiting") EXCEPT !.n = Head(draws)]>>
         IN  IF Head(draws) < 0
             THEN [log |-> Append(lg1, Ev("print_error")),
                   outcome |-> "error", valid_count |-> count]
             ELSE PermutationsLoop(perms, NextIdx(i, is_valid), count, mx,
                                   Tail(verdicts), Tail(draws),
                                   Append(lg1, Ev("sleep")))
\* lines 167-224 as one call of a run that nothing interrupts, given what
\* resolve, the probe calls and random.uniform give it
RunAlone(perms, dom, nc, ce, dns, verdicts, draws) ==
    LET query == [Ev("mx_query") EXCEPT !.kind = dns.exc, !.addr = dom,
                                        !.records = dns.records]
    IN  IF dns.exc # None
        THEN [log |-> <<query, Ev("print_error")>>, outcome |-> "error",
              valid_count |-> 0]
        ELSE IF dns.records = <<>>
        THEN [log |-> <<query, Ev("print_no_mx")>>, outcome |-> "no_mx",
              valid_count |-> 0]
        ELSE LET mx == FirstExchange(dns.records)
                 info == motta_validate_info_address(dom, mx, nc, ce, verdicts)
             IN  IF GateAborts(info.info_valid, info.is_catch_all)
                 THEN [log |-> <<query>> \o info.log, outcome |-> "gated",
                       valid_count |-> 0]
                 ELSE PermutationsLoop(perms, 1, 0, mx, info.rest, draws,
                                       <<query>> \o info.log)
\* the run of worker w, had it run alone with the answers it got
AloneOf(w) ==
    RunAlone(w.permutations, run_domain, w.no_check, check_email,
             DnsOf(w.log), VerdictsOf(w.log), DrawsOf(w.log))
\* the addresses of the candidate events of worker w
CandAddrs(w) ==
    {w.log[i].addr : i \in {j \in DOMAIN w.log :
                               w.log[j].ev = "print_result" \/ w.log[j].kind = "cand"}}

\* C31: two runs interleaved as independent workers, one per part of the
\* list, share no state: under every interleaving of their steps a worker
\* probes and reports addresses of its own list only, and when it has ended
\* its events (probes, results, summary counts), its outcome and its count
\* of valid addresses are those of the same run made alone with the same
\* answers from resolve, the server and random.uniform.
C31_WorkersIndependent ==
    other # NoOther =>
        \A w \in {Me, other} :
            /\ CandAddrs(w) \subseteq Range(w.permutations)
            /\ w.pc = "done" =>
                   /\ AloneOf(w).log = w.log
                   /\ AloneOf(w).outcome = w.outcome
                   /\ AloneOf(w).valid_count = w.valid_count
C31_Witness ==
    /\ other # NoOther
    /\ pc = "done"
    /\ outcome = "completed"
    /\ valid_count = 1
    /\ permutations = <<"a@d">>
    /\ other.pc = "cand_probe"
    /\ other.smtp.stage = "rcpt"

====
